---- MODULE Spec2Model ----
(***************************************************************************)
(* Model of cofounder/api/utils/parsers.js: the five text post-processing  *)
(* operations extractBackticks, extractBackticksMultiple, parseYaml,       *)
(* editGenUi and extractCodeDecorators.                                    *)
(*                                                                         *)
(* A JavaScript string is a sequence of symbols.  A symbol is either one   *)
(* character (" ", "\n", "<", ":") or a fixed run of characters that the   *)
(* code searches for or emits as a unit (the triple backtick, "@need:",    *)
(* "@/components/sections/", a word such as "Foo").  No symbol contains a  *)
(* character of another symbol's search pattern, so a substring search on  *)
(* characters and the same search on symbols agree.                        *)
(*                                                                         *)
(* A JavaScript value is a record with a type tag t; a string carries its  *)
(* symbols in v.  A call ends in [outcome |-> "return", value |-> ...] or, *)
(* when the async function's promise rejects, in [outcome |-> "reject"].   *)
(***************************************************************************)
EXTENDS Integers, Sequences, FiniteSets, TLC

VARIABLES
    op,       \* the operation being called
    arg,      \* the single argument object handed to it
    pc,       \* position of the call: "call", "loop", "done", "again"
    lines,    \* extractBackticksMultiple: text.split("\n")
    cursor,   \* extractBackticksMultiple: the line cursor
    found,    \* extractBackticksMultiple: the mapping built so far
    di,       \* extractBackticksMultiple: 1-based position in delimiters
    result,   \* outcome of the call
    again     \* editGenUi: outcome of the call on the first call's text

vars == <<op, arg, pc, lines, cursor, found, di, result, again>>

----------------------------------------------------------------------------
(* Symbols *)

NL == "\n"
SP == " "
TAB == "\t"
FENCE == "3xBACKTICK"   \* the three-backtick marker
LT == "<"
DQ == "\""
COLON == ":"
NEED == <<"@need", COLON>>   \* the string "@need:"
CR == "\r"
ELISION == "{/*...*/}"
SECTIONS_PATH == "@/components/sections/"
VIEWS_PATH == "@/components/views/"
\* whitespace removed by String.prototype.trim
WS == {SP, TAB, NL, CR}

----------------------------------------------------------------------------
(* JavaScript values *)

Undefined == [t |-> "undefined", v |-> <<>>]
Null == [t |-> "null", v |-> <<>>]
Num == [t |-> "number", v |-> <<>>]      \* a non-zero number such as 42
False == [t |-> "false", v |-> <<>>]
Str(s) == [t |-> "string", v |-> s]
Arr(a) == [t |-> "array", v |-> a]

\* !x is false
Truthy(x) == x.t \in {"number", "array", "object"} \/ (x.t = "string" /\ x.v # <<>>)

Rejected == [outcome |-> "reject"]
Returned(val) == [outcome |-> "return", value |-> val]
None == [outcome |-> "none"]

\* async function f({ field }): destructuring undefined or null throws a
\* TypeError before the try block of the body is entered; a property that is
\* missing (or read off a primitive) is undefined.
CanDestructure(a) == a.t \notin {"undefined", "null"}
Field(a, name) == IF a.t = "object" /\ name \in DOMAIN a THEN a[name] ELSE Undefined

----------------------------------------------------------------------------
(* Strings and arrays *)

Min(a, b) == IF a < b THEN a ELSE b
Max(a, b) == IF a > b THEN a ELSE b

\* Array.prototype.slice(a, b) and String.prototype.slice, 0 <= a
Slice(s, a, b) == SubSeq(s, a + 1, Min(b, Len(s)))
SliceFrom(s, a) == SubSeq(s, a + 1, Len(s))

\* pat occurs in s at 1-based position p
At(s, p, pat) ==
    p >= 1 /\ p + Len(pat) - 1 <= Len(s) /\ SubSeq(s, p, p + Len(pat) - 1) = pat

\* String.prototype.includes
Includes(s, pat) == \E p \in 1..Len(s) : At(s, p, pat)

\* Array.prototype.findIndex: 0-based index of the first match, or -1
FindIndex(a, P(_)) ==
    IF \E i \in 1..Len(a) : P(a[i])
    THEN (CHOOSE i \in 1..Len(a) : P(a[i]) /\ \A j \in 1..(i - 1) : ~P(a[j])) - 1
    ELSE -1

Reverse(a) == [i \in 1..Len(a) |-> a[Len(a) + 1 - i]]

\* String.prototype.split(sep) for a one-symbol separator: "".split gives [""]
RECURSIVE Split(_, _)
Split(s, sep) ==
    IF \E i \in 1..Len(s) : s[i] = sep
    THEN LET i == CHOOSE k \in 1..Len(s) : s[k] = sep /\ \A j \in 1..(k - 1) : s[j] # sep
         IN  <<SubSeq(s, 1, i - 1)>> \o Split(SubSeq(s, i + 1, Len(s)), sep)
    ELSE <<s>>

\* Array.prototype.join(sep) for an array of strings
RECURSIVE Join(_, _)
Join(a, sep) ==
    IF a = <<>> THEN <<>>
    ELSE IF Len(a) = 1 THEN a[1]
    ELSE a[1] \o <<sep>> \o Join(Tail(a), sep)

\* String.prototype.trim
Trim(s) ==
    LET keep == {i \in 1..Len(s) : s[i] \notin WS}
    IN  IF keep = {} THEN <<>>
        ELSE SubSeq(s, CHOOSE i \in keep : \A j \in keep : i <= j,
                       CHOOSE i \in keep : \A j \in keep : i >= j)

\* String.prototype.replaceAll(pat, rep): left to right, non-overlapping
RECURSIVE ReplaceAll(_, _, _)
ReplaceAll(s, pat, rep) ==
    IF Len(s) < Len(pat) THEN s
    ELSE IF SubSeq(s, 1, Len(pat)) = pat
    THEN rep \o ReplaceAll(SubSeq(s, Len(pat) + 1, Len(s)), pat, rep)
    ELSE <<s[1]>> \o ReplaceAll(Tail(s), pat, rep)

----------------------------------------------------------------------------
(* extractBackticks *)

HasFence(line) == Includes(line, <<FENCE>>)

firstLineWithBackticksIndex(ls) == FindIndex(ls, HasFence)

\* the reversed index taken for a count: the - 1 left out
lastBackticksIndex_Mut(ls) == Len(ls) - FindIndex(Reverse(ls), HasFence)

lastBackticksIndex(ls) == Len(ls) - 1 - FindIndex(Reverse(ls), HasFence)

extractedContent(ls) ==
    Trim(Join(Slice(ls, firstLineWithBackticksIndex(ls) + 1, lastBackticksIndex(ls)), NL))

extractBackticks(a) ==
    IF ~CanDestructure(a) THEN Rejected
    ELSE LET text == Field(a, "text") IN
    IF ~Truthy(text) \/ text.t # "string" THEN Returned(Null)
    ELSE LET ls == Split(text.v, NL) IN
    IF firstLineWithBackticksIndex(ls) = -1 THEN Returned(Null)
    ELSE IF lastBackticksIndex(ls) = -1 THEN Returned(Null)
    ELSE IF lastBackticksIndex(ls) <= firstLineWithBackticksIndex(ls) THEN Returned(Null)
    ELSE IF extractedContent(ls) = <<>> THEN Returned(Null)
    ELSE Returned([t |-> "object", text |-> extractedContent(ls)])

\* bounded inputs: every string of at most MaxBtLen symbols of BtAlphabet
MaxBtLen == 7
BtAlphabet == {FENCE, NL, SP, "x"}
BtTexts == UNION {[1..n -> BtAlphabet] : n \in 0..MaxBtLen}

InitBackticks ==
    /\ op = "extractBackticks"
    /\ arg \in {[t |-> "object", text |-> Str(s)] : s \in BtTexts}
    /\ pc = "call"
    /\ lines = <<>> /\ cursor = 0 /\ found = <<>> /\ di = 0
    /\ result = None /\ again = None

ExtractBackticksCall ==
    /\ pc = "call" /\ op = "extractBackticks"
    /\ result' = extractBackticks(arg)
    /\ pc' = "done"
    /\ UNCHANGED <<op, arg, lines, cursor, found, di, again>>

NextBackticks == ExtractBackticksCall

SpecBackticks == InitBackticks /\ [][NextBackticks]_vars

\* the lines that contain a triple-backtick marker (1-based)
FenceLineSet(ls) == {i \in 1..Len(ls) : HasFence(ls[i])}
FirstFence(ls) == CHOOSE i \in FenceLineSet(ls) : \A j \in FenceLineSet(ls) : i <= j
LastFence(ls) == CHOOSE i \in FenceLineSet(ls) : \A j \in FenceLineSet(ls) : i >= j
InnerText(ls) == Trim(Join(SubSeq(ls, FirstFence(ls) + 1, LastFence(ls) - 1), NL))

\* C1: for every non-empty string, extractBackticks returns {text: T}, T the
\* trimmed newline-join of the lines strictly between the first and the last
\* fence line, exactly when both exist, first < last and T is non-empty;
\* otherwise it returns null.
C1_ExtractBackticks ==
    (pc = "done" /\ op = "extractBackticks" /\ arg.t = "object"
        /\ arg.text.t = "string" /\ arg.text.v # <<>>)
    => LET ls == Split(arg.text.v, NL)
           ok == /\ FenceLineSet(ls) # {}
                 /\ FirstFence(ls) < LastFence(ls)
                 /\ InnerText(ls) # <<>>
       IN  /\ result.outcome = "return"
           /\ ok => result.value = [t |-> "object", text |-> InnerText(ls)]
           /\ ~ok => result.value = Null

C1_Witness ==
    /\ pc = "done" /\ op = "extractBackticks"
    /\ result = Returned([t |-> "object", text |-> <<"x", SP, "x">>])
    /\ Len(Split(arg.text.v, NL)) = 3

----------------------------------------------------------------------------
(* extractBackticksMultiple: the guard and the split (MultipleEnter), one  *)
(* action per way an iteration of the for loop ends, and the return.       *)

\* the argument's fields, read only after the guard has passed
text == arg.text.v
delimiters == arg.delimiters.v
delim == delimiters[di]

HasLabel(line, label) == Includes(line, <<FENCE>> \o label)

firstLine == FindIndex(SliceFrom(lines, cursor), LAMBDA line : HasLabel(line, delim))

textFromFirstLine == SliceFrom(SliceFrom(lines, cursor), firstLine)

lastLine == FindIndex(SliceFrom(textFromFirstLine, 1), HasFence)

\* found[delim] = body
Put(map, key, body) ==
    [k \in DOMAIN map \cup {key} |-> IF k = key THEN body ELSE map[k]]

\* forgets the opening line: cursor + firstLine + lastLine + 1
NextCursor_Mut == cursor + firstLine + lastLine + 1

\* cursor = cursor + firstLine + lastLine + 2
NextCursor == cursor + firstLine + lastLine + 2

MultipleEnter ==
    /\ pc = "call" /\ op = "extractBackticksMultiple"
    /\ IF ~CanDestructure(arg)
       THEN /\ result' = Rejected /\ pc' = "done"
            /\ UNCHANGED <<lines, cursor, found, di>>
       ELSE IF \/ ~Truthy(Field(arg, "text"))
               \/ Field(arg, "delimiters").t # "array"
               \/ Len(Field(arg, "delimiters").v) = 0
       THEN /\ result' = Returned(Null) /\ pc' = "done"
            /\ UNCHANGED <<lines, cursor, found, di>>
       ELSE IF Field(arg, "text").t # "string"
       THEN \* text.split is not a function: caught, null
            /\ result' = Returned(Null) /\ pc' = "done"
            /\ UNCHANGED <<lines, cursor, found, di>>
       ELSE /\ lines' = Split(text, NL)
            /\ cursor' = 0
            /\ found' = <<>>
            /\ di' = 1
            /\ pc' = "loop"
            /\ UNCHANGED result
    /\ UNCHANGED <<op, arg, again>>

InLoop == pc = "loop" /\ di <= Len(delimiters) /\ cursor < Len(lines)

MultipleNoOpening ==
    /\ InLoop
    /\ firstLine = -1
    /\ di' = di + 1
    /\ UNCHANGED <<op, arg, pc, lines, cursor, found, result, again>>

\* skips past the unclosed opening line instead of leaving the cursor alone
MultipleNoClosing_Mut ==
    /\ InLoop
    /\ firstLine # -1
    /\ lastLine = -1
    /\ di' = di + 1
    /\ cursor' = cursor + firstLine + 1
    /\ UNCHANGED <<op, arg, pc, lines, found, result, again>>

MultipleNoClosing ==
    /\ InLoop
    /\ firstLine # -1
    /\ lastLine = -1
    /\ di' = di + 1
    /\ UNCHANGED <<op, arg, pc, lines, cursor, found, result, again>>

MultipleFound ==
    /\ InLoop
    /\ firstLine # -1
    /\ lastLine # -1
    /\ found' = Put(found, delim, Join(Slice(textFromFirstLine, 1, lastLine + 1), NL))
    /\ cursor' = NextCursor
    /\ di' = di + 1
    /\ UNCHANGED <<op, arg, pc, lines, result, again>>

MultipleReturn ==
    /\ pc = "loop"
    /\ ~InLoop
    /\ result' = IF DOMAIN found # {}
                 THEN Returned([t |-> "object", map |-> found])
                 ELSE Returned(Null)
    /\ pc' = "done"
    /\ UNCHANGED <<op, arg, lines, cursor, found, di, again>>

\* bounded inputs: at most MaxMultiLines lines, each one of MultiLineKinds
MaxMultiLines == 6
LabelA == <<"a">>
LabelB == <<"b">>
MultiLineKinds == {<<FENCE>> \o LabelA, <<FENCE>> \o LabelB, <<FENCE>>, <<SP, "x">>}
MultiTexts == {Join(ls, NL) : ls \in UNION {[1..n -> MultiLineKinds] : n \in 1..MaxMultiLines}}
MultiDelimiters == {<<LabelA, LabelB>>, <<LabelB, LabelA>>, <<LabelA>>}

InitMultiple ==
    /\ op = "extractBackticksMultiple"
    /\ arg \in {[t |-> "object", text |-> Str(s), delimiters |-> Arr(d)] :
                    s \in MultiTexts, d \in MultiDelimiters}
    /\ pc = "call"
    /\ lines = <<>> /\ cursor = 0 /\ found = <<>> /\ di = 0
    /\ result = None /\ again = None

NextMultiple ==
    \/ MultipleEnter
    \/ MultipleNoOpening
    \/ MultipleNoClosing
    \/ MultipleFound
    \/ MultipleReturn

SpecMultiple == InitMultiple /\ [][NextMultiple]_vars

\* 1-based number of the first line after line `after` that contains the
\* fence followed by label (0 when there is none), and of the first fence
\* line after line `open`
OpenOf(ls, after, label) ==
    LET S == {i \in (after + 1)..Len(ls) : HasLabel(ls[i], label)}
    IN  IF S = {} THEN 0 ELSE CHOOSE i \in S : \A j \in S : i <= j
CloseOf(ls, open) ==
    LET S == {i \in (open + 1)..Len(ls) : HasFence(ls[i])}
    IN  IF open = 0 \/ S = {} THEN 0 ELSE CHOOSE i \in S : \A j \in S : i <= j
BodyOf(ls, open, close) == Join(SubSeq(ls, open + 1, close - 1), NL)

\* C2: with delimiters [a, b], a well-formed a block followed by a
\* well-formed b block gives both keys, each mapped to the untrimmed lines
\* strictly between its opening line and its closing fence line; when the a
\* block is matched and no b opening lies after its closing fence line (the
\* b block lies before it), the result holds a and not b.
C2_MultipleInOrder ==
    (pc = "done" /\ op = "extractBackticksMultiple" /\ delimiters = <<LabelA, LabelB>>)
    => LET ls == Split(text, NL)
           oa == OpenOf(ls, 0, LabelA)
           ca == CloseOf(ls, oa)
           ob == OpenOf(ls, ca, LabelB)
           cb == CloseOf(ls, ob)
       IN  /\ (oa # 0 /\ ca # 0 /\ ob # 0 /\ cb # 0)
              => result = Returned([t |-> "object", map |->
                     Put(Put(<<>>, LabelA, BodyOf(ls, oa, ca)), LabelB, BodyOf(ls, ob, cb))])
           /\ (oa # 0 /\ ca # 0 /\ ob = 0)
              => result = Returned([t |-> "object", map |->
                     Put(<<>>, LabelA, BodyOf(ls, oa, ca))])

C2_Witness ==
    /\ pc = "done" /\ op = "extractBackticksMultiple"
    /\ delimiters = <<LabelA, LabelB>>
    /\ result.value.t = "object"
    /\ DOMAIN result.value.map = {LabelA, LabelB}
    /\ result.value.map[LabelA] = <<SP, "x">>
    /\ result.value.map[LabelB] = <<SP, "x">>

\* the out-of-order case of C2: the b block lies entirely before the a block
C2_OutOfOrderReached ==
    /\ pc = "done" /\ op = "extractBackticksMultiple"
    /\ delimiters = <<LabelA, LabelB>>
    /\ LET ls == Split(text, NL)
           ob == OpenOf(ls, 0, LabelB)
       IN  ob # 0 /\ CloseOf(ls, ob) # 0 /\ CloseOf(ls, ob) < OpenOf(ls, 0, LabelA)
    /\ result.value.t = "object"
    /\ DOMAIN result.value.map = {LabelA}

\* the mapping the scan builds from line `cur` on for the labels ds: a label
\* with no opening after cur, or no fence line after its opening, is passed
\* over and the search position stays
RECURSIVE ScanFrom(_, _, _, _)
ScanFrom(ls, ds, cur, acc) ==
    IF ds = <<>> THEN acc
    ELSE LET o == OpenOf(ls, cur, Head(ds))
             c == CloseOf(ls, o)
         IN  IF o = 0 \/ c = 0
             THEN ScanFrom(ls, Tail(ds), cur, acc)
             ELSE ScanFrom(ls, Tail(ds), c, Put(acc, Head(ds), BodyOf(ls, o, c)))

C9_Result ==
    (pc = "done" /\ op = "extractBackticksMultiple")
    => LET ls == Split(text, NL)
           m == ScanFrom(ls, delimiters, 0, <<>>)
           ob == OpenOf(ls, 0, LabelB)
       IN  /\ result.outcome = "return"
           /\ (result.value = Null) <=> (DOMAIN m = {})
           /\ result.value # Null => result.value = [t |-> "object", map |-> m]
           /\ result.value # [t |-> "object", map |-> <<>>]
           /\ (/\ delimiters = <<LabelA, LabelB>>
               /\ OpenOf(ls, 0, LabelA) = 0
               /\ ob # 0 /\ CloseOf(ls, ob) # 0)
              => result.value = [t |-> "object", map |->
                     Put(<<>>, LabelB, BodyOf(ls, ob, CloseOf(ls, ob)))]

C9_MissKeepsCursor ==
    (pc = "loop" /\ pc' = "loop")
    => LET o == OpenOf(lines, cursor, delim)
       IN  (o = 0 \/ CloseOf(lines, o) = 0)
           => (cursor' = cursor /\ found' = found /\ di' = di + 1)

\* C9: a label whose opening is not found from the cursor, or whose opening
\* has no fence line after it, is omitted, leaves the cursor unchanged and
\* does not stop the scan; the function returns null exactly when no label
\* matched and never an empty mapping; with [a, b], no a block and a
\* well-formed b block the result is {b: body}.
C9_TolerantScan == []C9_Result /\ [][C9_MissKeepsCursor]_vars

C9_Witness ==
    /\ pc = "done" /\ op = "extractBackticksMultiple"
    /\ delimiters = <<LabelA, LabelB>>
    /\ OpenOf(Split(text, NL), 0, LabelA) # 0
    /\ CloseOf(Split(text, NL), OpenOf(Split(text, NL), 0, LabelA)) = 0
    /\ result = Returned([t |-> "object", map |-> Put(<<>>, LabelB, <<SP, "x">>)])

----------------------------------------------------------------------------
(* extractCodeDecorators *)

pre == 5
post == 15

\* line.match(/@need:([^:]+):(.+)/) tried at 1-based position p: "@need:",
\* then the longest run of non-colon symbols (at least one), then a colon,
\* then at least one symbol that is not a line terminator.  The result is
\* <<type, description>> untrimmed, or <<>> when the pattern fails at p.
RECURSIVE RunLength(_, _, _)
RunLength(s, from, stop) ==
    IF from > Len(s) \/ s[from] \in stop THEN 0
    ELSE 1 + RunLength(s, from + 1, stop)

MatchAt(line, p) ==
    IF ~At(line, p, NEED) THEN <<>>
    ELSE LET tlen == RunLength(line, p + 2, {COLON})
             q == p + 2 + tlen
             dlen == RunLength(line, q + 1, {CR, NL})
         IN  IF tlen = 0 \/ q > Len(line) \/ dlen = 0 THEN <<>>
             ELSE <<SubSeq(line, p + 2, q - 1), SubSeq(line, q + 1, q + dlen)>>

\* the leftmost position where the pattern matches
RECURSIVE MatchFrom(_, _)
MatchFrom(line, p) ==
    IF p > Len(line) THEN <<>>
    ELSE IF MatchAt(line, p) # <<>> THEN MatchAt(line, p)
    ELSE MatchFrom(line, p + 1)

decoratorMatch(line) == MatchFrom(line, 1)

startLine(index) == Max(0, index - pre)
\* the window end without the + 1
endLine_Mut(ls, index) == Min(Len(ls), index + post)
endLine(ls, index) == Min(Len(ls), index + post + 1)
snippet(ls, index) ==
    <<ELISION, NL>> \o Join(Slice(ls, startLine(index), endLine(ls, index)), NL)
        \o <<NL, ELISION>>

\* the callback checking the type only: if (!type)
Pushed_Mut(ls, index) ==
    LET m == decoratorMatch(ls[index + 1])
    IN  IF m = <<>> THEN <<>>
        ELSE IF Trim(m[1]) = <<>> THEN <<>>
        ELSE <<[type |-> Trim(m[1]),
                description |-> Trim(m[2]),
                snippet |-> snippet(ls, index),
                lineNumber |-> index + 1]>>

\* the callback of lines.forEach for the line at 0-based index: the records
\* it pushes
Pushed(ls, index) ==
    LET m == decoratorMatch(ls[index + 1])
    IN  IF m = <<>> THEN <<>>
        ELSE IF Trim(m[1]) = <<>> \/ Trim(m[2]) = <<>> THEN <<>>
        ELSE <<[type |-> Trim(m[1]),
                description |-> Trim(m[2]),
                snippet |-> snippet(ls, index),
                lineNumber |-> index + 1]>>

\* decorators after the callback has run on the first n lines
RECURSIVE decorators(_, _)
decorators(ls, n) ==
    IF n = 0 THEN <<>> ELSE decorators(ls, n - 1) \o Pushed(ls, n - 1)

extractCodeDecorators(a) ==
    IF ~CanDestructure(a) THEN Rejected
    ELSE LET code == Field(a, "code") IN
    IF ~Truthy(code) THEN Returned(Arr(<<>>))
    ELSE IF code.t # "string" THEN Returned(Arr(<<>>))   \* code.split throws: caught
    ELSE LET ls == Split(code.v, NL) IN Returned(Arr(decorators(ls, Len(ls))))

\* bounded inputs: at most MaxDecLines lines, all the filler line except at
\* most two: one of DecKinds and, after it, one of DecKindsAfter
MaxDecLines == 22
Filler == <<"x">>
DecKinds == {
    <<"/", "/", SP>> \o NEED \o <<"api", COLON, "fetch", SP, "user">>,
    NEED \o <<SP, "api", SP, COLON, SP, "d", COLON, "e", SP>>,
    NEED \o <<"api", COLON>>,
    NEED \o <<SP, COLON, "d">>,
    NEED \o <<"api", COLON, SP>>,
    NEED \o <<COLON, "d", SP>> \o NEED \o <<"ui", COLON, "d">>,
    NEED \o <<"api", COLON, "d", CR>>,
    Filler }
DecKindsAfter == {
    NEED \o <<"ui", COLON, "d">>,
    NEED \o <<"ui", COLON>>,
    Filler }
DecLines(n, p1, k1, p2, k2) ==
    [i \in 1..n |-> IF i = p1 THEN k1 ELSE IF i = p2 THEN k2 ELSE Filler]
DecTexts ==
    {Join(DecLines(n, p[1], k[1], p[2], k[2]), NL) :
        n \in 1..MaxDecLines,
        p \in {q \in (1..MaxDecLines) \X (1..MaxDecLines) : q[1] < q[2]},
        k \in DecKinds \X DecKindsAfter}

InitDecorators ==
    /\ op = "extractCodeDecorators"
    /\ arg \in {[t |-> "object", code |-> c] :
                    c \in {Str(s) : s \in DecTexts} \cup {Str(<<>>), Null, Num}}
    /\ pc = "call"
    /\ lines = <<>> /\ cursor = 0 /\ found = <<>> /\ di = 0
    /\ result = None /\ again = None

ExtractCodeDecoratorsCall ==
    /\ pc = "call" /\ op = "extractCodeDecorators"
    /\ result' = extractCodeDecorators(arg)
    /\ pc' = "done"
    /\ UNCHANGED <<op, arg, lines, cursor, found, di, again>>

NextDecorators == ExtractCodeDecoratorsCall

SpecDecorators == InitDecorators /\ [][NextDecorators]_vars

\* line carries a marker @need:<type>:<description> starting at p, the type
\* being line[p+2..q-1] and the description the rest of the line after the
\* colon at q
MarkerShape(line, p, q) ==
    /\ p >= 1 /\ q <= Len(line) /\ q > p + 2
    /\ At(line, p, NEED)
    /\ line[q] = COLON
    /\ \A k \in (p + 2)..(q - 1) : line[k] # COLON
    /\ q < Len(line) /\ line[q + 1] # CR
MarkerPlaces(line) ==
    {pq \in (1..Len(line)) \X (1..Len(line)) : MarkerShape(line, pq[1], pq[2])}
FirstMarker(line) ==
    CHOOSE pq \in MarkerPlaces(line) : \A o \in MarkerPlaces(line) : pq[1] <= o[1]
NoCR(s) == IF \E i \in 1..Len(s) : s[i] = CR
           THEN SubSeq(s, 1, (CHOOSE i \in 1..Len(s) : s[i] = CR /\ \A j \in 1..(i - 1) : s[j] # CR) - 1)
           ELSE s
TypeOf(line) == Trim(SubSeq(line, FirstMarker(line)[1] + 2, FirstMarker(line)[2] - 1))
DescriptionOf(line) == Trim(NoCR(SubSeq(line, FirstMarker(line)[2] + 1, Len(line))))
WellFormed(line) ==
    MarkerPlaces(line) # {} /\ TypeOf(line) # <<>> /\ DescriptionOf(line) # <<>>
MarkerLine(line) == Includes(line, NEED)

DecDone == pc = "done" /\ op = "extractCodeDecorators" /\ arg.code.t = "string"
DecOut == result.value.v

\* C3: every line i (0-based) of an n-line source that carries a marker with
\* non-empty trimmed type and description has exactly one record, with
\* lineNumber i+1, the trimmed type and description and the snippet made of
\* the elision line, lines max(0,i-5) up to but excluding min(n,i+16), and
\* the elision line; the records are in ascending lineNumber order.
C3_DecoratorRecords ==
    (DecDone /\ arg.code.v # <<>>)
    => LET ls == Split(arg.code.v, NL)
           n == Len(ls)
       IN  /\ result.outcome = "return" /\ result.value.t = "array"
           /\ \A i \in 0..(n - 1) :
                WellFormed(ls[i + 1])
                => /\ Cardinality({k \in 1..Len(DecOut) : DecOut[k].lineNumber = i + 1}) = 1
                   /\ \E k \in 1..Len(DecOut) :
                        DecOut[k] =
                            [type |-> TypeOf(ls[i + 1]),
                             description |-> DescriptionOf(ls[i + 1]),
                             snippet |-> <<ELISION, NL>>
                                 \o Join(SubSeq(ls, Max(0, i - 5) + 1, Min(n, i + 16)), NL)
                                 \o <<NL, ELISION>>,
                             lineNumber |-> i + 1]
           /\ \A k, l \in 1..Len(DecOut) :
                k < l => DecOut[k].lineNumber < DecOut[l].lineNumber

\* a marker on line 10 of a source long enough for the whole window
C3_Witness ==
    /\ DecDone
    /\ Len(Split(arg.code.v, NL)) = 22
    /\ Len(DecOut) = 2
    /\ DecOut[1].lineNumber = 6
    /\ DecOut[1].type = <<"api">>
    /\ DecOut[1].description = <<"fetch", SP, "user">>
    /\ Len(Split(DecOut[1].snippet, NL)) = 23
    /\ DecOut[2].lineNumber = 10
    /\ DecOut[2].type = <<"ui">>

\* C4: a line whose marker has a missing or empty-trimmed type or description
\* produces no record and does not stop the scan: the number of records is
\* the number of marker lines minus the number of malformed marker lines,
\* and the result is an array, never null.
C4_MalformedSkipped ==
    (pc = "done" /\ op = "extractCodeDecorators")
    => /\ result.outcome = "return" /\ result.value.t = "array"
       /\ arg.code.t = "string" =>
            LET ls == Split(arg.code.v, NL)
                markers == {i \in 1..Len(ls) : MarkerLine(ls[i])}
                malformed == {i \in markers : ~WellFormed(ls[i])}
            IN  /\ Len(DecOut) = Cardinality(markers) - Cardinality(malformed)
                /\ \A i \in malformed : \A k \in 1..Len(DecOut) : DecOut[k].lineNumber # i

\* a malformed marker (no description) followed by a well-formed one
C4_Witness ==
    /\ DecDone
    /\ LET ls == Split(arg.code.v, NL)
       IN  /\ Len(ls) >= 2
           /\ ls[1] = NEED \o <<SP, COLON, "d">>
           /\ WellFormed(ls[2])
    /\ Len(DecOut) = 1
    /\ DecOut[1].lineNumber = 2

----------------------------------------------------------------------------
(* editGenUi *)

GenUiSection == <<"GenUi", "Section">>     \* the name GenUiSection
GenUiView == <<"GenUi", "View">>           \* the name GenUiView

\* import GenUiSection from '@/p0/genui/GenUiSection';
ImportLine(name) ==
    <<"import", SP>> \o name \o <<SP, "from", SP, "@/p0/genui/">> \o name \o <<";">>

\* <GenUiSection id="sectionId"
WrapperTag(name, id) == <<LT>> \o name \o <<SP, "id=", DQ>> \o id \o <<DQ>>

\* line.split(" ")[1], <<>> when it is undefined or empty (both falsy)
SplitId(line) ==
    LET parts == Split(line, SP) IN IF Len(parts) >= 2 THEN parts[2] ELSE <<>>

\* pushes the identifier without the Set: no deduplication
AddId_Mut(ids, id) ==
    LET list == IF ids = False THEN <<>> ELSE ids.v
    IN  IF id = <<>> THEN Arr(list) ELSE Arr(Append(list, id))

\* if (!ids) ids = []; if (id) ids = [...new Set([...ids, id])]
AddId(ids, id) ==
    LET list == IF ids = False THEN <<>> ELSE ids.v
    IN  IF id = <<>> \/ \E k \in 1..Len(list) : list[k] = id
        THEN Arr(list)
        ELSE Arr(Append(list, id))

\* the callback line mistaken so that a reference line without an
\* identifier is kept: return false moved inside if (sectionId)
FilterLine_Mut(acc, line) ==
    IF line = <<>> THEN [acc EXCEPT !.kept = Append(@, line)]
    ELSE IF Includes(line, <<SECTIONS_PATH>>)
    THEN IF SplitId(line) = <<>>
         THEN [acc EXCEPT !.sections = AddId(@, SplitId(line)), !.kept = Append(@, line)]
         ELSE [acc EXCEPT !.sections = AddId(@, SplitId(line))]
    ELSE IF Includes(line, <<VIEWS_PATH>>)
    THEN [acc EXCEPT !.views = AddId(@, SplitId(line))]
    ELSE [acc EXCEPT !.kept = Append(@, line)]

\* the filter callback on one line: acc holds the lines kept so far and genUi
FilterLine(acc, line) ==
    IF line = <<>> THEN [acc EXCEPT !.kept = Append(@, line)]
    ELSE IF Includes(line, <<SECTIONS_PATH>>)
    THEN [acc EXCEPT !.sections = AddId(@, SplitId(line))]
    ELSE IF Includes(line, <<VIEWS_PATH>>)
    THEN [acc EXCEPT !.views = AddId(@, SplitId(line))]
    ELSE [acc EXCEPT !.kept = Append(@, line)]

\* the callback run on lines k..Len(ls), in order
RECURSIVE FilterFrom(_, _, _)
FilterFrom(ls, k, acc) ==
    IF k > Len(ls) THEN acc
    ELSE FilterFrom(ls, k + 1, FilterLine(acc, ls[k]))

\* tsx.split("\n").filter(...).join("\n"), with genUi as the filter left it
FilterPhase(tsx) ==
    LET acc == FilterFrom(Split(tsx, NL), 1,
                          [kept |-> <<>>, sections |-> False, views |-> False])
    IN  [newTsx |-> Join(acc.kept, NL), sections |-> acc.sections, views |-> acc.views]

\* String.prototype.replace with a string pattern: the first occurrence only
RECURSIVE ReplaceFirst(_, _, _)
ReplaceFirst(s, pat, rep) ==
    IF Len(s) < Len(pat) THEN s
    ELSE IF SubSeq(s, 1, Len(pat)) = pat
    THEN rep \o SubSeq(s, Len(pat) + 1, Len(s))
    ELSE <<s[1]>> \o ReplaceFirst(Tail(s), pat, rep)

\* replace written for replaceAll
RECURSIVE ReplaceEach_Mut(_, _, _)
ReplaceEach_Mut(s, ids, name) ==
    IF ids = <<>> THEN s
    ELSE ReplaceEach_Mut(ReplaceFirst(s, <<LT>> \o Head(ids), WrapperTag(name, Head(ids))),
                         Tail(ids), name)

\* for (let id of ids) newTsx = newTsx.replaceAll("<" + id, wrapper tag)
RECURSIVE ReplaceEach(_, _, _)
ReplaceEach(s, ids, name) ==
    IF ids = <<>> THEN s
    ELSE ReplaceEach(ReplaceAll(s, <<LT>> \o Head(ids), WrapperTag(name, Head(ids))),
                     Tail(ids), name)

\* if (ids) { newTsx = import line + "\n" + newTsx; the replaceAll loop }
Substitute(newTsx, ids, name) ==
    IF ids = False THEN newTsx
    ELSE ReplaceEach(ImportLine(name) \o <<NL>> \o newTsx, ids.v, name)

\* hands the falsy input back, as the catch block does
InvalidTsxResult_Mut(tsx) == [tsx |-> tsx, sections |-> False, views |-> False]

\* the early return on falsy tsx
InvalidTsxResult(tsx) == [tsx |-> Str(<<>>), sections |-> False, views |-> False]

editGenUi(a) ==
    IF ~CanDestructure(a) THEN Rejected
    ELSE LET tsx == Field(a, "tsx") IN
    IF ~Truthy(tsx) THEN Returned(InvalidTsxResult(tsx))
    ELSE IF tsx.t # "string"
    THEN \* tsx.split is not a function: caught, the input comes back
         Returned([tsx |-> tsx, sections |-> False, views |-> False])
    ELSE LET f == FilterPhase(tsx.v)
         IN  Returned([tsx |-> Str(Substitute(Substitute(f.newTsx, f.sections, GenUiSection),
                                              f.views, GenUiView)),
                       sections |-> f.sections,
                       views |-> f.views])

\* bounded inputs: at most MaxGenUiLines lines, each one of GenUiLineKinds
MaxGenUiLines == 3
Foo == <<"Foo">>
Bar == <<"Bar">>
FooBar == <<"Foo", "Bar">>
GenUi == <<"GenUi">>
RefLine(id, path) == <<"import", SP>> \o id \o <<SP, "from", SP, path>> \o id
GenUiLineKinds == {
    RefLine(Foo, SECTIONS_PATH),
    RefLine(Bar, SECTIONS_PATH),
    RefLine(FooBar, SECTIONS_PATH),
    RefLine(Foo, VIEWS_PATH),
    RefLine(Bar, VIEWS_PATH),
    RefLine(FooBar, VIEWS_PATH),
    RefLine(GenUi, VIEWS_PATH),
    <<"import", SP, SP, "Foo", SP, "from", SP, SECTIONS_PATH, "Foo">>,
    <<SECTIONS_PATH, "Foo">>,
    <<"import", SP, VIEWS_PATH, "Bar", SP, SECTIONS_PATH, "Foo">>,
    <<LT, "Foo", SP, LT, "Foo", "Bar", SP, LT, "Bar">>,
    <<>> }
GenUiTexts ==
    {Join(ls, NL) : ls \in UNION {[1..n -> GenUiLineKinds] : n \in 1..MaxGenUiLines}}

InitGenUi ==
    /\ op = "editGenUi"
    /\ arg \in {[t |-> "object", tsx |-> x] :
                    x \in {Str(s) : s \in GenUiTexts} \cup {Null, Undefined, Num}}
    /\ pc = "call"
    /\ lines = <<>> /\ cursor = 0 /\ found = <<>> /\ di = 0
    /\ result = None /\ again = None

EditGenUiCall ==
    /\ pc = "call" /\ op = "editGenUi"
    /\ result' = editGenUi(arg)
    /\ pc' = "done"
    /\ UNCHANGED <<op, arg, lines, cursor, found, di, again>>

\* the caller hands the text it got back to editGenUi once more
EditGenUiAgain ==
    /\ pc = "done" /\ op = "editGenUi"
    /\ result.outcome = "return"
    /\ again' = editGenUi([t |-> "object", tsx |-> result.value.tsx])
    /\ pc' = "again"
    /\ UNCHANGED <<op, arg, lines, cursor, found, di, result>>

NextGenUi == EditGenUiCall \/ EditGenUiAgain

SpecGenUi == InitGenUi /\ [][NextGenUi]_vars

GenUiDone == pc \in {"done", "again"} /\ op = "editGenUi" /\ arg.t = "object"
GenUiString == GenUiDone /\ arg.tsx.t = "string" /\ arg.tsx.v # <<>>
HasSectionsPath(line) == Includes(line, <<SECTIONS_PATH>>)
HasViewsPath(line) == Includes(line, <<VIEWS_PATH>>)
Unreferenced(line) == ~HasSectionsPath(line) /\ ~HasViewsPath(line)
\* the input's lines, and its lines that carry no path-prefix token, joined
InLines == Split(arg.tsx.v, NL)
Remaining == Join(SelectSeq(InLines, Unreferenced), NL)
OutText == result.value.tsx.v
OutLines == Split(OutText, NL)

CountOcc(s, pat) == Cardinality({p \in 1..Len(s) : At(s, p, pat)})
IsPrefix(a, b) == At(b, 1, a)

\* line.split(" ")[1], <<>> when there is none
SpaceSecond(line) ==
    IF Len(Split(line, SP)) >= 2 THEN Split(line, SP)[2] ELSE <<>>

\* the tokens of s delimited by runs of whitespace
RECURSIVE WsTokens(_)
WsTokens(s) ==
    IF s = <<>> THEN <<>>
    ELSE IF s[1] \in WS THEN WsTokens(Tail(s))
    ELSE LET n == RunLength(s, 1, WS)
         IN  <<SubSeq(s, 1, n)>> \o WsTokens(SubSeq(s, n + 1, Len(s)))
WsSecond(line) == IF Len(WsTokens(line)) >= 2 THEN WsTokens(line)[2] ELSE <<>>

\* val is false when no line of I exists, and else the array of the tokens
\* Tok of the lines I, without repetition, in order of first occurrence
IdsAre(val, I, Tok(_)) ==
    IF I = {} THEN val = False
    ELSE /\ val.t = "array"
         /\ {val.v[k] : k \in 1..Len(val.v)} = {Tok(InLines[i]) : i \in I} \ {<<>>}
         /\ \A k, l \in 1..Len(val.v) :
              k < l => \E i \in I :
                         /\ Tok(InLines[i]) = val.v[k]
                         /\ \A j \in I : Tok(InLines[j]) = val.v[l] => i < j

SectionRefs == {i \in 1..Len(InLines) : HasSectionsPath(InLines[i])}
ViewRefs == {i \in 1..Len(InLines) : HasViewsPath(InLines[i]) /\ ~HasSectionsPath(InLines[i])}

FilterClaim(Tok(_)) ==
    GenUiString
    => LET f == FilterPhase(arg.tsx.v)
       IN  /\ IdsAre(f.sections, SectionRefs, Tok)
           /\ IdsAre(f.views, ViewRefs, Tok)
           /\ f.newTsx = Remaining
           /\ result.value.sections = f.sections
           /\ result.value.views = f.views

\* C10 as stated: the identifiers are the second whitespace-delimited tokens
\* of the reference lines.
C10_AsStated == FilterClaim(WsSecond)

\* C10 (amended): ids.sections is false exactly when no line contains the
\* sections path-prefix token, and is otherwise the first-occurrence-ordered,
\* deduplicated list of line.split(" ")[1] (the text between the first and
\* the second space character, skipped when missing or empty) of those lines;
\* ids.views likewise over the lines with the views token and not the
\* sections one; every line with either token is dropped, every other line
\* is kept in order.
C10_FilterPhase == FilterClaim(SpaceSecond)

C10_Witness ==
    /\ GenUiString /\ pc = "done"
    /\ InLines = <<RefLine(Bar, SECTIONS_PATH), RefLine(Foo, SECTIONS_PATH),
                   RefLine(Bar, SECTIONS_PATH)>>
    /\ result.value.sections = Arr(<<Bar, Foo>>)
    /\ result.value.views = False

\* exactly one sections reference line, with identifier S, and exactly one
\* views reference line, with identifier V
OneEach ==
    /\ GenUiString
    /\ Cardinality(SectionRefs) = 1
    /\ Cardinality({i \in 1..Len(InLines) : HasViewsPath(InLines[i])}) = 1
    /\ Cardinality(ViewRefs) = 1
    /\ \A i \in SectionRefs \cup ViewRefs : SpaceSecond(InLines[i]) # <<>>
TheS == SpaceSecond(InLines[CHOOSE i \in SectionRefs : TRUE])
TheV == SpaceSecond(InLines[CHOOSE i \in ViewRefs : TRUE])

RewriteClaim ==
    /\ result.outcome = "return"
    /\ Cardinality({i \in 1..Len(OutLines) : OutLines[i] = ImportLine(GenUiSection)}) = 1
    /\ Cardinality({i \in 1..Len(OutLines) : OutLines[i] = ImportLine(GenUiView)}) = 1
    /\ \A i \in 1..Len(OutLines) : Unreferenced(OutLines[i])
    /\ result.value.sections = Arr(<<TheS>>)
    /\ result.value.views = Arr(<<TheV>>)
    /\ CountOcc(OutText, WrapperTag(GenUiSection, TheS)) = CountOcc(Remaining, <<LT>> \o TheS)
    /\ CountOcc(OutText, WrapperTag(GenUiView, TheV)) = CountOcc(Remaining, <<LT>> \o TheV)

\* C5 as stated: with one sections identifier S and one views identifier V
\* the output has the two import lines, no reference line, ids [S] and [V],
\* every <S rewritten to the sections wrapper tag and every <V to the views
\* wrapper tag.
C5_AsStated == OneEach => RewriteClaim

\* one pass over s that rewrites <S and <V where they stand
RECURSIVE RewriteTags(_, _, _)
RewriteTags(s, S, V) ==
    IF s = <<>> THEN <<>>
    ELSE IF At(s, 1, <<LT>> \o S)
    THEN WrapperTag(GenUiSection, S) \o RewriteTags(SubSeq(s, Len(S) + 2, Len(s)), S, V)
    ELSE IF At(s, 1, <<LT>> \o V)
    THEN WrapperTag(GenUiView, V) \o RewriteTags(SubSeq(s, Len(V) + 2, Len(s)), S, V)
    ELSE <<s[1]>> \o RewriteTags(Tail(s), S, V)

Separate(S, V) == ~IsPrefix(S, V) /\ ~IsPrefix(V, S) /\ ~IsPrefix(V, GenUiSection)

\* C5 (amended): as C5, provided neither of S and V is a prefix of the other
\* and V is not a prefix of the wrapper name GenUiSection; the output is then
\* the views import line, the sections import line and the remaining text
\* with every <S and <V rewritten.
C5_RewriteSeparate ==
    (OneEach /\ Separate(TheS, TheV))
    => /\ RewriteClaim
       /\ OutText = ImportLine(GenUiView) \o <<NL>> \o ImportLine(GenUiSection) \o <<NL>>
                        \o RewriteTags(Remaining, TheS, TheV)

C5_Witness ==
    /\ OneEach /\ pc = "done"
    /\ TheS = Foo /\ TheV = Bar
    /\ CountOcc(OutText, WrapperTag(GenUiSection, Foo)) = 2
    /\ CountOcc(OutText, WrapperTag(GenUiView, Bar)) = 1

FalsyTsx == GenUiDone /\ pc = "done" /\ ~Truthy(arg.tsx)

C7_Idempotent ==
    /\ (GenUiDone /\ result.value.tsx.t = "string")
       => \A i \in 1..Len(OutLines) : Unreferenced(OutLines[i])
    /\ (GenUiDone /\ pc = "again")
       => again = Returned([tsx |-> result.value.tsx, sections |-> False, views |-> False])

\* the second application, after a first one that rewrote both categories
\* and collected an identifier that contains a path-prefix token
C7_Witness ==
    /\ GenUiString /\ pc = "again"
    /\ result.value.sections = Arr(<<<<VIEWS_PATH, "Bar">>, Foo>>)
    /\ result.value.views = Arr(<<Bar>>)
    /\ again.value.tsx = result.value.tsx

----------------------------------------------------------------------------
(* parseYaml *)

\* what yaml.parse(text) of the yaml package can do: throw, return null or
\* undefined, or return a parsed value
YamlOutcomes == {"throws", "nullish", "value"}

parseYaml(a, y) ==
    IF ~CanDestructure(a) THEN Rejected
    ELSE LET generated == Field(a, "generated") IN
    IF ~Truthy(generated) \/ ~Truthy(Field(generated, "text")) THEN Returned(Null)
    ELSE IF y = "throws" THEN Returned(Null)
    ELSE IF y = "nullish" THEN Returned(Null)
    ELSE Returned([t |-> "parsed", v |-> <<>>])

ParseYamlCall ==
    /\ pc = "call" /\ op = "parseYaml"
    /\ \E y \in YamlOutcomes : result' = parseYaml(arg, y)
    /\ pc' = "done"
    /\ UNCHANGED <<op, arg, lines, cursor, found, di, again>>

----------------------------------------------------------------------------
(* Calls of the five exported operations with arguments of any kind *)

\* arguments that are not objects: f(), f(null), f(42)
NonObjects == {[t |-> "undefined"], [t |-> "null"], [t |-> "number"]}
FieldValues == {Undefined, Null, Num, Str(<<>>), Str(<<"x">>)}
CallArgs(o) ==
    NonObjects \cup {[t |-> "object"]} \cup
    CASE o = "extractBackticks" ->
            {[t |-> "object", text |-> x] :
                x \in FieldValues \cup {Str(<<FENCE, NL, "x", NL, FENCE>>)}}
      [] o = "extractBackticksMultiple" ->
            {[t |-> "object", text |-> x, delimiters |-> d] :
                x \in {Undefined, Num, Str(<<>>), Str(<<FENCE, "a">>),
                       Str(<<FENCE, "a", NL, "x", NL, FENCE>>)},
                d \in {Undefined, Arr(<<>>), Arr(<<LabelA>>), Arr(<<LabelB, LabelA>>)}}
      [] o = "parseYaml" ->
            {[t |-> "object", generated |-> g] :
                g \in {Undefined, Null, Num} \cup
                      {[t |-> "object", text |-> x] : x \in FieldValues}}
      [] o = "editGenUi" ->
            {[t |-> "object", tsx |-> x] :
                x \in FieldValues \cup {Str(RefLine(Foo, SECTIONS_PATH))}}
      [] o = "extractCodeDecorators" ->
            {[t |-> "object", code |-> x] :
                x \in FieldValues \cup {Str(NEED \o <<"api", COLON, "d">>)}}

Operations ==
    {"extractBackticks", "extractBackticksMultiple", "parseYaml", "editGenUi",
     "extractCodeDecorators"}

InitCalls ==
    /\ op \in Operations
    /\ arg \in CallArgs(op)
    /\ pc = "call"
    /\ lines = <<>> /\ cursor = 0 /\ found = <<>> /\ di = 0
    /\ result = None /\ again = None

NextCalls ==
    \/ ExtractBackticksCall
    \/ MultipleEnter
    \/ MultipleNoOpening
    \/ MultipleNoClosing
    \/ MultipleFound
    \/ MultipleReturn
    \/ ParseYamlCall
    \/ EditGenUiCall
    \/ ExtractCodeDecoratorsCall

SpecCalls == InitCalls /\ [][NextCalls]_vars

IsString(x) == x.t = "string" /\ x.v # <<>>

\* the argument is missing, null or wrongly typed
InvalidCall ==
    CASE op = "extractBackticks" -> ~IsString(Field(arg, "text"))
      [] op = "extractBackticksMultiple" ->
            \/ ~IsString(Field(arg, "text"))
            \/ Field(arg, "delimiters").t # "array"
            \/ Field(arg, "delimiters").v = <<>>
      [] op = "parseYaml" -> ~Truthy(Field(Field(arg, "generated"), "text"))
      [] op = "editGenUi" -> ~IsString(Field(arg, "tsx"))
      [] op = "extractCodeDecorators" -> ~IsString(Field(arg, "code"))

Sentinel ==
    CASE op = "extractCodeDecorators" -> Arr(<<>>)
      [] op = "editGenUi" ->
            [tsx |-> Field(arg, "tsx"), sections |-> False, views |-> False]
      [] OTHER -> Null

\* C8: no operation propagates an exception or a rejected completion to its
\* caller; a call with a missing, null or wrongly typed argument completes
\* with the operation's sentinel: null for the extractors and the parser, an
\* empty array for the annotation scanner, the unmodified input text with
\* both ids false for the rewriter.
C8_NeverThrows ==
    pc = "done"
    => /\ result.outcome = "return"
       /\ InvalidCall => result.value = Sentinel

====
